---- MODULE Spec2Model ----
(***************************************************************************)
(* Registry maintenance scripts of common-ci-configuration:                *)
(*   scripts/python/remove-buildkit-cache.py  (the cache pruner)           *)
(*   scripts/python/delete-image.py           (the single-tag deleter)     *)
(*                                                                         *)
(* Every HTTP request is one step: the action that issues it also handles  *)
(* the response up to the next request.  Names (tags, branches, registry   *)
(* locations) are sequences of tokens, so that str.replace and string      *)
(* equality are computed and not assumed.                                  *)
(***************************************************************************)
EXTENDS Integers, Sequences, FiniteSets, TLC

(* ------------------------------ bounds -------------------------------- *)
\* repositories the registry listing returns at most
MaxRepos == 2
\* branches the project holds at most
MaxBranches == 2
\* tags one registry repository holds at most
MaxTags == 2
\* records per page as the server cuts them (per_page, scaled down)
PerPage == 1
\* repositories the project of the single-tag deleter holds at most
MaxDeleterRepos == 2

(* --------------------------- name universe ---------------------------- *)
Latest == <<"latest">>
TagMain == <<"main">>
TagFeature == <<"feature", "-", "x", "-", "1">>
BranchFeature == <<"feature", "/", "x", "-", "1">>

TagNames == {Latest, TagMain, TagFeature}
\* a tag record with a name, and one without the 'name' key
TagRecord(n) == [name |-> n]
NamelessRecord == [location |-> <<"registry">>]
TagRecords == {TagRecord(n) : n \in TagNames} \cup {NamelessRecord}

BranchRecords ==
    { [name |-> TagMain, merged |-> FALSE],
      [name |-> BranchFeature, merged |-> FALSE],
      [name |-> BranchFeature, merged |-> TRUE],
      [name |-> Latest, merged |-> TRUE] }

RepoRecords ==
    { [id |-> 1, name |-> "cache-a"],
      [id |-> 2, name |-> "cache-b"],
      [id |-> 3, name |-> "images"] }

\* os.environ['CACHE_REPOSITORIES'].split(',')
cache_repositories == {"cache-a", "cache-b"}

\* delete-image.py: the 'repository' argument, and the locations the project's
\* registry repositories can have
repository_location == <<"registry", "hive", "haf">>
Locations ==
    { <<"registry", "hive", "haf">>,
      <<"registry", "hive", "haf", "data">>,
      <<"registry", "hive">> }
\* a registry repository of the project, and whether it holds the tag 'tag'
DeleterRepoRecords == [location : Locations, has_tag : BOOLEAN]
DistinctLocations(s) ==
    \A i, j \in 1..Len(s) : i # j => s[i].location # s[j].location

SeqsUpTo(S, n) == UNION {[1..k -> S] : k \in 0..n}

Distinct(s) == \A i, j \in 1..Len(s) : i # j => s[i] # s[j]
DistinctNames(s) == \A i, j \in 1..Len(s) : i # j => s[i].name # s[j].name

\* what the registry can list for the project: repositories are distinct
RepoListings == {s \in SeqsUpTo(RepoRecords, MaxRepos) : Distinct(s)}
\* what the project can hold: branch names are unique in a git repository
BranchLists == {s \in SeqsUpTo(BranchRecords, MaxBranches) : DistinctNames(s)}
\* what a tag listing can return (the same name may be listed twice)
TagLists == SeqsUpTo(TagRecords, MaxTags)
\* what the deleter's project can hold: locations are unique in a project
DeleterRepoLists ==
    {s \in SeqsUpTo(DeleterRepoRecords, MaxDeleterRepos) : DistinctLocations(s)}

(* ------------------------- the server's paging ------------------------ *)
Min(a, b) == IF a < b THEN a ELSE b

\* the x-total-pages header of a listing of `all`
TotalPages(all) ==
    IF Len(all) = 0 THEN 1 ELSE (Len(all) + PerPage - 1) \div PerPage

\* the records of page p of a listing of `all`
Page(all, p) ==
    SubSeq(all, (p - 1) * PerPage + 1, Min(p * PerPage, Len(all)))

\* a response to a GET: status; whether the JSON body is a list; whether the
\* x-total-pages header is present.  The body of a listing is JSON (the list,
\* or an error object).
GetResponses ==
    { [status |-> 200, list |-> TRUE, header |-> TRUE],
      [status |-> 200, list |-> TRUE, header |-> FALSE],
      [status |-> 200, list |-> FALSE, header |-> TRUE],
      [status |-> 500, list |-> FALSE, header |-> FALSE] }

\* a response to a DELETE: status and whether the body parses as JSON.  A
\* success carries the JSON body of the API; a failure carries the API's JSON
\* error object or a body that is not JSON (the error page of a proxy)
DeleteResponses ==
    { [status |-> 200, json |-> TRUE],
      [status |-> 500, json |-> TRUE],
      [status |-> 500, json |-> FALSE] }

(* ----------------------------- the state ------------------------------ *)
VARIABLES
    \* the server
    registry_repositories,  \* the project's registry repositories, as listed
    project_branches,       \* the project's branches, as listed
    registry_tags,          \* the tags of the repository being processed
    \* main
    pc,
    cache_repository_ids,
    branches,
    page_num,
    total_pages,
    repo_idx,               \* position of `for repository_id in ...`
    \* process_cache_registry_repository (its own page_num and total_pages)
    tag_page_num,
    tag_total_pages,
    image_tags,
    tag_idx,                \* position of `for image_tag in image_tags`
    \* what the run did
    requests,               \* requests issued by main, with their outcome
    repo_requests,          \* requests of the current call of
                            \* process_cache_registry_repository
    printed,                \* the closing messages printed so far
    \* delete-image.py
    d_pc,
    d_project_exists,
    d_repositories,
    d_idx,
    repository_found,
    d_calls,
    d_printed,
    d_exit

pruner_vars == <<registry_repositories, project_branches, registry_tags, pc,
                 cache_repository_ids, branches, page_num, total_pages,
                 repo_idx, tag_page_num, tag_total_pages, image_tags, tag_idx,
                 requests, repo_requests, printed>>
deleter_vars == <<d_pc, d_project_exists, d_repositories, d_idx,
                  repository_found, d_calls, d_printed, d_exit>>
vars == <<pruner_vars, deleter_vars>>

(* ------------------ remove-buildkit-cache.py: helpers ------------------ *)
\* a request and what came back
Req(kind, repo, page, tag, resp) ==
    [kind |-> kind, repo |-> repo, page |-> page, pos |-> 0, tag |-> tag,
     status |-> resp.status, json |-> TRUE,
     list |-> resp.status = 200 /\ resp.list]

Msg(repo, text) == [repo |-> repo, msg |-> text]

\* response.json() of page p of a listing of `all`: the page's records when the
\* body is a JSON list, and no records otherwise
Body(resp, all, p) ==
    IF resp.status = 200 /\ resp.list THEN Page(all, p) ELSE <<>>

\* `if data`: a JSON list is truthy when it is not empty; the non-list bodies
\* the API sends are error objects, which are not empty
Truthy(resp, data) == IF resp.list THEN data # <<>> ELSE TRUE

RECURSIVE NamesOf(_)
NamesOf(data) ==
    IF data = <<>> THEN <<>>
    ELSE IF "name" \in DOMAIN Head(data)
         THEN <<Head(data).name>> \o NamesOf(Tail(data))
         ELSE NamesOf(Tail(data))

append_names(names, is_list, data) ==
    IF ~is_list THEN names ELSE names \o NamesOf(data)

\* a variant that puts the new page in front of the collection
extend_branches_m(bs, is_list, data) ==
    IF is_list THEN data \o bs ELSE bs

\* branches.extend(data), guarded by isinstance(data, list)
extend_branches(bs, is_list, data) ==
    IF is_list THEN bs \o data ELSE bs

can_tag_be_deleted(bs, branch_name) ==
    \A i \in 1..Len(bs) : ~(bs[i].name = branch_name /\ ~bs[i].merged)

\* str.replace(old, new, 1)
RECURSIVE ReplaceFirst(_, _, _)
ReplaceFirst(s, old, new) ==
    IF s = <<>> THEN <<>>
    ELSE IF Head(s) = old THEN <<new>> \o Tail(s)
    ELSE <<Head(s)>> \o ReplaceFirst(Tail(s), old, new)

branch_name_1(image_tag) == image_tag
branch_name_2(image_tag) == ReplaceFirst(image_tag, "-", "/")

\* a variant that compares with another spelling
is_latest_m(image_tag) == image_tag = <<"LATEST">>

\* `if image_tag == "latest": continue`
is_latest(image_tag) == image_tag = Latest

\* the condition of line 74
tag_is_deletable(bs, image_tag) ==
    /\ can_tag_be_deleted(bs, branch_name_1(image_tag))
    /\ can_tag_be_deleted(bs, branch_name_2(image_tag))

\* the ids of the listed repositories whose name is in CACHE_REPOSITORIES
RECURSIVE select_cache_repository_ids(_)
select_cache_repository_ids(data) ==
    IF data = <<>> THEN <<>>
    ELSE IF Head(data).name \in cache_repositories
         THEN <<Head(data).id>> \o select_cache_repository_ids(Tail(data))
         ELSE select_cache_repository_ids(Tail(data))

\* int(resp_headers.get('x-total-pages', 1))
header_total_pages(resp, all) ==
    IF resp.header THEN TotalPages(all) ELSE 1

\* int(resp_headers.get('x-total-pages', 1) if data else 0)
first_tag_total_pages(resp, data, all) ==
    IF Truthy(resp, data) THEN header_total_pages(resp, all) ELSE 0

\* a variant without the `if not cache_repository_ids` return
repositories_outcome_m(resp, ids) ==
    IF resp.status # 200 THEN "error"
    ELSE IF ~resp.list THEN "notlist"
    ELSE "go"

\* how main goes on after the repositories listing
repositories_outcome(resp, ids) ==
    IF resp.status # 200 THEN "error"
    ELSE IF ~resp.list THEN "notlist"
    ELSE IF ids = <<>> THEN "none"
    ELSE "go"

\* a variant that logs the failure and goes on, as the later pages do
first_branch_page_outcome_m(resp) == "go"

\* how main goes on after the first page of the branch list
first_branch_page_outcome(resp) ==
    IF resp.status # 200 THEN "error"
    ELSE IF ~resp.list THEN "notlist"
    ELSE "go"

\* how process_cache_registry_repository goes on after the first tag page
first_tag_page_outcome(resp) ==
    IF resp.status # 200 THEN "error"
    ELSE "go"

\* a variant that steps over a page
next_page_m(p) == p + 2

\* the loops' `page_num += 1`
next_page(p) == p + 1

repository_id == cache_repository_ids[repo_idx]

(* ------------------------------- Init --------------------------------- *)
PrunerIdle ==
    /\ registry_tags = <<>>
    /\ cache_repository_ids = <<>>
    /\ branches = <<>>
    /\ page_num = 0
    /\ total_pages = 0
    /\ tag_page_num = 0
    /\ tag_total_pages = 0
    /\ repo_idx = 0
    /\ image_tags = <<>>
    /\ tag_idx = 0
    /\ requests = <<>>
    /\ repo_requests = <<>>
    /\ printed = <<>>

DeleterIdle ==
    /\ d_pc = "idle"
    /\ d_project_exists = FALSE
    /\ d_repositories = <<>>
    /\ d_idx = 0
    /\ repository_found = FALSE
    /\ d_calls = <<>>
    /\ d_printed = <<>>
    /\ d_exit = 0

Init ==
    /\ registry_repositories \in RepoListings
    /\ project_branches \in BranchLists
    /\ pc = "repositories"
    /\ PrunerIdle
    /\ DeleterIdle

(* ------------------------------- main --------------------------------- *)
\* lines 91-107
FetchRepositories ==
    /\ pc = "repositories"
    /\ \E resp \in GetResponses :
         LET data == IF resp.status = 200 /\ resp.list
                     THEN registry_repositories ELSE <<>>
             ids == select_cache_repository_ids(data)
             out == repositories_outcome(resp, ids)
         IN /\ requests' = Append(requests, Req("GET_repositories", 0, 0, <<>>, resp))
            /\ cache_repository_ids' = IF out \in {"none", "go"} THEN ids ELSE <<>>
            /\ printed' =
                 CASE out = "error" -> Append(printed, Msg(0, "error_fetching_repositories"))
                   [] out = "notlist" -> Append(printed, Msg(0, "expected_list_of_repositories"))
                   [] out = "none" -> Append(printed, Msg(0, "no_cache_repositories"))
                   [] OTHER -> printed
            /\ pc' = CASE out = "go" -> "branches_first"
                       [] OTHER -> "done"
    /\ UNCHANGED <<registry_repositories, project_branches, registry_tags, branches,
                   page_num, total_pages, repo_idx, image_tags, tag_idx, repo_requests>>
    /\ UNCHANGED <<tag_page_num, tag_total_pages>>
    /\ UNCHANGED deleter_vars

\* lines 109-128
FetchFirstBranchPage ==
    /\ pc = "branches_first"
    /\ \E resp \in GetResponses :
         LET out == first_branch_page_outcome(resp)
         IN /\ requests' = Append(requests, Req("GET_branches", 0, 1, <<>>, resp))
            /\ printed' =
                 CASE out = "error" -> Append(printed, Msg(0, "error_fetching_branches"))
                   [] out = "notlist" -> Append(printed, Msg(0, "expected_list_of_branches"))
                   [] OTHER -> printed
            /\ pc' = CASE out = "go" -> "branches_loop"
                       [] OTHER -> "done"
            /\ page_num' = 1
            /\ IF out = "go"
               THEN /\ branches' = Body(resp, project_branches, 1)
                    /\ total_pages' = header_total_pages(resp, project_branches)
               ELSE UNCHANGED <<branches, total_pages>>
    /\ UNCHANGED <<registry_repositories, project_branches, registry_tags,
                   cache_repository_ids, repo_idx, image_tags, tag_idx, repo_requests>>
    /\ UNCHANGED <<tag_page_num, tag_total_pages>>
    /\ UNCHANGED deleter_vars

\* lines 130-140, one turn of the loop
FetchNextBranchPage ==
    /\ pc = "branches_loop"
    /\ page_num < total_pages
    /\ page_num' = next_page(page_num)
    /\ \E resp \in GetResponses :
         /\ requests' = Append(requests, Req("GET_branches", 0, page_num', <<>>, resp))
         /\ branches' = IF resp.status # 200
                        THEN branches
                        ELSE extend_branches(branches, resp.list,
                                             Body(resp, project_branches, page_num'))
    /\ UNCHANGED <<registry_repositories, project_branches, registry_tags,
                   pc, cache_repository_ids, total_pages, repo_idx, image_tags,
                   tag_idx, repo_requests, printed>>
    /\ UNCHANGED <<tag_page_num, tag_total_pages>>
    /\ UNCHANGED deleter_vars

\* lines 130, 142-145: the loop ends and the repositories are taken in turn
BranchLoopExit ==
    /\ pc = "branches_loop"
    /\ ~(page_num < total_pages)
    /\ pc' = "repo_loop"
    /\ repo_idx' = 1
    /\ UNCHANGED <<registry_repositories, project_branches, registry_tags,
                   cache_repository_ids, branches, page_num, total_pages, image_tags,
                   tag_idx, requests, repo_requests, printed>>
    /\ UNCHANGED <<tag_page_num, tag_total_pages>>
    /\ UNCHANGED deleter_vars

\* lines 145-147: no repository is left
MainReturn ==
    /\ pc = "repo_loop"
    /\ repo_idx > Len(cache_repository_ids)
    /\ pc' = "done"
    /\ UNCHANGED <<registry_repositories, project_branches, registry_tags,
                   cache_repository_ids, branches, page_num, total_pages, repo_idx,
                   image_tags, tag_idx, requests, repo_requests, printed>>
    /\ UNCHANGED <<tag_page_num, tag_total_pages>>
    /\ UNCHANGED deleter_vars

(* ----------------- process_cache_registry_repository ------------------ *)
\* the locals of a call, and the record of its requests, end with the call
CallReturns ==
    /\ registry_tags' = <<>>
    /\ image_tags' = <<>>
    /\ tag_idx' = 0
    /\ tag_page_num' = 0
    /\ tag_total_pages' = 0
    /\ repo_requests' = <<>>
    /\ repo_idx' = repo_idx + 1
    /\ pc' = "repo_loop"

\* lines 145-146 and 28-53: the call, and the first page of the tag list
FetchFirstTagPage ==
    /\ pc = "repo_loop"
    /\ repo_idx <= Len(cache_repository_ids)
    /\ \E resp \in GetResponses :
         /\ repo_requests' = <<Req("GET_tags", repository_id, 1, <<>>, resp)>>
         /\ tag_page_num' = 1
         /\ tag_idx' = 0
         /\ IF first_tag_page_outcome(resp) = "error"
            THEN /\ pc' = "tags_failed"
                 /\ image_tags' = <<>>
                 /\ registry_tags' = <<>>
                 /\ UNCHANGED tag_total_pages
            ELSE \E tags \in TagLists :
                    LET data == Body(resp, tags, 1)
                    IN /\ registry_tags' = tags
                       /\ tag_total_pages' = first_tag_total_pages(resp, data, tags)
                       /\ image_tags' = append_names(<<>>, resp.list, data)
                       /\ pc' = "tags_loop"
    /\ UNCHANGED <<registry_repositories, project_branches, cache_repository_ids,
                   branches, requests, repo_idx, printed>>
    /\ UNCHANGED <<page_num, total_pages>>
    /\ UNCHANGED deleter_vars

\* lines 45-47: the first page failed; the message, and the return to main
TagListingFailed ==
    /\ pc = "tags_failed"
    /\ printed' = Append(printed, Msg(repository_id, "error_fetching_tags"))
    /\ CallReturns
    /\ UNCHANGED <<registry_repositories, project_branches, cache_repository_ids,
                   branches, page_num, total_pages, requests>>
    /\ UNCHANGED deleter_vars

\* lines 55-64, one turn of the loop
FetchNextTagPage ==
    /\ pc = "tags_loop"
    /\ tag_page_num < tag_total_pages
    /\ tag_page_num' = next_page(tag_page_num)
    /\ \E resp \in GetResponses :
         /\ repo_requests' = Append(repo_requests,
                                    Req("GET_tags", repository_id, tag_page_num', <<>>, resp))
         /\ image_tags' = IF resp.status # 200
                          THEN image_tags
                          ELSE append_names(image_tags, resp.list,
                                            Body(resp, registry_tags, tag_page_num'))
    /\ UNCHANGED <<registry_repositories, project_branches, registry_tags, pc,
                   cache_repository_ids, branches, tag_total_pages, repo_idx, tag_idx,
                   requests, printed>>
    /\ UNCHANGED <<page_num, total_pages>>
    /\ UNCHANGED deleter_vars

\* lines 55, 66-69: the loop ends and the tags are taken in turn
TagLoopExit ==
    /\ pc = "tags_loop"
    /\ ~(tag_page_num < tag_total_pages)
    /\ pc' = "tag_loop"
    /\ tag_idx' = 1
    /\ UNCHANGED <<registry_repositories, project_branches, registry_tags,
                   cache_repository_ids, branches, tag_page_num, tag_total_pages, repo_idx,
                   image_tags, requests, repo_requests, printed>>
    /\ UNCHANGED <<page_num, total_pages>>
    /\ UNCHANGED deleter_vars

\* lines 69-74: a tag that is "latest" or that a branch protects is passed over
SkipTag ==
    /\ pc = "tag_loop"
    /\ tag_idx <= Len(image_tags)
    /\ \/ is_latest(image_tags[tag_idx])
       \/ ~tag_is_deletable(branches, image_tags[tag_idx])
    /\ tag_idx' = tag_idx + 1
    /\ UNCHANGED <<registry_repositories, project_branches, registry_tags, pc,
                   cache_repository_ids, branches, page_num, total_pages, repo_idx,
                   image_tags, requests, repo_requests, printed>>
    /\ UNCHANGED <<tag_page_num, tag_total_pages>>
    /\ UNCHANGED deleter_vars

\* lines 69-78: the DELETE of a tag; response.json() raises on a body that is
\* not JSON and nothing catches it
DeleteTag ==
    /\ pc = "tag_loop"
    /\ tag_idx <= Len(image_tags)
    /\ ~is_latest(image_tags[tag_idx])
    /\ tag_is_deletable(branches, image_tags[tag_idx])
    /\ \E resp \in DeleteResponses :
         /\ repo_requests' = Append(repo_requests,
                [kind |-> "DELETE_tag", repo |-> repository_id, page |-> 0,
                 pos |-> tag_idx, tag |-> image_tags[tag_idx], status |-> resp.status,
                 json |-> resp.json, list |-> FALSE])
         /\ IF resp.json
            THEN /\ tag_idx' = tag_idx + 1
                 /\ UNCHANGED pc
            ELSE /\ pc' = "crashed"
                 /\ UNCHANGED tag_idx
    /\ UNCHANGED <<registry_repositories, project_branches, registry_tags,
                   cache_repository_ids, branches, page_num, total_pages, repo_idx,
                   image_tags, requests, printed>>
    /\ UNCHANGED <<tag_page_num, tag_total_pages>>
    /\ UNCHANGED deleter_vars

\* line 80 and the return to main's loop
FinishRepository ==
    /\ pc = "tag_loop"
    /\ tag_idx > Len(image_tags)
    /\ printed' = Append(printed, Msg(repository_id, "finished_tag_processing"))
    /\ CallReturns
    /\ UNCHANGED <<registry_repositories, project_branches, cache_repository_ids,
                   branches, page_num, total_pages, requests>>
    /\ UNCHANGED deleter_vars

Next ==
    \/ FetchRepositories
    \/ FetchFirstBranchPage
    \/ FetchNextBranchPage
    \/ BranchLoopExit
    \/ FetchFirstTagPage
    \/ TagListingFailed
    \/ FetchNextTagPage
    \/ TagLoopExit
    \/ SkipTag
    \/ DeleteTag
    \/ FinishRepository
    \/ MainReturn

Spec == Init /\ [][Next]_vars

(* -------------------------- delete-image.py ---------------------------- *)
Call(kind, repo, ok) == [kind |-> kind, repo |-> repo, ok |-> ok]

\* a variant that accepts every location the wanted one is a prefix of
location_matches_m(wanted, location) ==
    /\ Len(wanted) <= Len(location)
    /\ SubSeq(location, 1, Len(wanted)) = wanted

\* `repository_location == repository.location`
location_matches(wanted, location) == wanted = location

InitDeleter ==
    /\ registry_repositories = <<>>
    /\ project_branches = <<>>
    /\ pc = "idle"
    /\ PrunerIdle
    /\ d_pc = "start"
    /\ d_project_exists \in BOOLEAN
    /\ d_repositories \in DeleterRepoLists
    /\ d_idx = 0
    /\ repository_found = FALSE
    /\ d_calls = <<>>
    /\ d_printed = <<>>
    /\ d_exit = 0

\* lines 44-46 and 57-58: gl.projects.get raises GitlabGetError for a project
\* that does not exist
GetProject ==
    /\ d_pc = "start"
    /\ d_calls' = Append(d_calls, Call("GET_project", 0, d_project_exists))
    /\ IF d_project_exists
       THEN /\ d_pc' = "list"
            /\ UNCHANGED d_printed
       ELSE /\ d_printed' = Append(d_printed, "project_not_found")
            /\ d_pc' = "done"
    /\ UNCHANGED <<d_project_exists, d_repositories, d_idx, repository_found, d_exit>>
    /\ UNCHANGED pruner_vars

\* line 47: a failing listing raises GitlabListError, which nothing catches
ListRepositories ==
    /\ d_pc = "list"
    /\ \E ok \in BOOLEAN :
         /\ d_calls' = Append(d_calls, Call("LIST_repositories", 0, ok))
         /\ IF ok
            THEN /\ d_pc' = "loop"
                 /\ d_idx' = 1
                 /\ UNCHANGED d_exit
            ELSE /\ d_pc' = "crashed"
                 /\ d_exit' = 1
                 /\ UNCHANGED d_idx
    /\ UNCHANGED <<d_project_exists, d_repositories, repository_found, d_printed>>
    /\ UNCHANGED pruner_vars

\* lines 49-50: a repository with another location is passed over
SkipRepository ==
    /\ d_pc = "loop"
    /\ d_idx <= Len(d_repositories)
    /\ ~location_matches(repository_location, d_repositories[d_idx].location)
    /\ d_idx' = d_idx + 1
    /\ UNCHANGED <<d_pc, d_project_exists, d_repositories, repository_found, d_calls,
                   d_printed, d_exit>>
    /\ UNCHANGED pruner_vars

\* lines 49-52 and 33-40, the tag is not in the repository: tags.get raises
\* GitlabGetError, which delete_tag catches
TagAbsent ==
    /\ d_pc = "loop"
    /\ d_idx <= Len(d_repositories)
    /\ location_matches(repository_location, d_repositories[d_idx].location)
    /\ ~d_repositories[d_idx].has_tag
    /\ repository_found' = TRUE
    /\ d_calls' = Append(d_calls, Call("GET_tag", d_idx, FALSE))
    /\ d_printed' = Append(d_printed, "tag_not_exists")
    /\ d_idx' = d_idx + 1
    /\ UNCHANGED <<d_pc, d_project_exists, d_repositories, d_exit>>
    /\ UNCHANGED pruner_vars

\* lines 49-52 and 33-38, the tag is in the repository: tag.delete() is called;
\* when it fails it raises GitlabDeleteError, which nothing catches
DeleteFoundTag ==
    /\ d_pc = "loop"
    /\ d_idx <= Len(d_repositories)
    /\ location_matches(repository_location, d_repositories[d_idx].location)
    /\ d_repositories[d_idx].has_tag
    /\ repository_found' = TRUE
    /\ \E ok \in BOOLEAN :
         /\ d_calls' = d_calls \o <<Call("GET_tag", d_idx, TRUE),
                                    Call("DELETE_tag", d_idx, ok)>>
         /\ IF ok
            THEN /\ d_printed' = Append(d_printed, "deleted_tag")
                 /\ d_idx' = d_idx + 1
                 /\ UNCHANGED <<d_pc, d_exit>>
            ELSE /\ d_pc' = "crashed"
                 /\ d_exit' = 1
                 /\ UNCHANGED <<d_printed, d_idx>>
    /\ UNCHANGED <<d_project_exists, d_repositories>>
    /\ UNCHANGED pruner_vars

\* lines 54-56 and the end of the script
FinishDeleter ==
    /\ d_pc = "loop"
    /\ d_idx > Len(d_repositories)
    /\ d_printed' = IF ~repository_found
                    THEN Append(d_printed, "repository_not_found")
                    ELSE d_printed
    /\ d_pc' = "done"
    /\ UNCHANGED <<d_project_exists, d_repositories, d_idx, repository_found, d_calls,
                   d_exit>>
    /\ UNCHANGED pruner_vars

NextDeleter ==
    \/ GetProject
    \/ ListRepositories
    \/ SkipRepository
    \/ TagAbsent
    \/ DeleteFoundTag
    \/ FinishDeleter

SpecDeleter == InitDeleter /\ [][NextDeleter]_vars

(* ============================ properties ============================== *)
IsDelete(e) == e.kind = "DELETE_tag"
IsGet(e) == e.kind \in {"GET_branches", "GET_tags"}

\* positions of the DELETE requests of the current repository
DeleteIdx == {i \in 1..Len(repo_requests) : IsDelete(repo_requests[i])}

\* the project holds an unmerged branch of this name
ProjectHasUnmerged(name) ==
    \E i \in 1..Len(project_branches) :
        project_branches[i].name = name /\ ~project_branches[i].merged

Range(s) == {s[i] : i \in 1..Len(s)}

\* the records of the pages of `all` that the requests of `log` brought back
RECURSIVE Fetched(_, _)
Fetched(log, all) ==
    IF log = <<>> THEN <<>>
    ELSE (IF IsGet(Head(log)) /\ Head(log).list
          THEN Page(all, Head(log).page) ELSE <<>>) \o Fetched(Tail(log), all)

\* the page requests of a log, and their page numbers
PageRequests(log) == SelectSeq(log, IsGet)
PagesInOrder(log) ==
    \A i \in 1..Len(PageRequests(log)) : PageRequests(log)[i].page = i
AllListed(log) == \A i \in 1..Len(PageRequests(log)) : PageRequests(log)[i].list

\* main has left its branch loop; the function has left its tag loop
BranchLoopEnded == repo_idx >= 1
BranchLoopJustEnded == pc = "repo_loop" /\ repo_idx = 1 /\ repo_requests = <<>>
TagLoopEnded == tag_idx >= 1
TagLoopOver == pc = "tag_loop" /\ tag_idx > Len(image_tags)
TagLoopJustEnded == pc = "tag_loop" /\ tag_idx = 1

\* the run is over
RunOver == pc \in {"done", "crashed"}

(* C1: a tag whose name, or whose name with the first hyphen replaced by a   *)
(* slash, is the name of an unmerged branch of the project gets no DELETE,   *)
(* also when a branch page request fails.  Stated for the runs in which the  *)
(* first branch page reported the number of pages of the branch list and     *)
(* every response with status 200 carried a list.                            *)
C1_UnmergedBranchKeepsTag ==
    (/\ BranchLoopEnded
     /\ total_pages = TotalPages(project_branches)
     /\ \A i \in 1..Len(requests) : requests[i].status = 200 => requests[i].list)
    => \A i \in DeleteIdx :
          /\ ~ProjectHasUnmerged(repo_requests[i].tag)
          /\ ~ProjectHasUnmerged(ReplaceFirst(repo_requests[i].tag, "-", "/"))

(* C2: no DELETE request is ever issued for a tag named "latest", whatever   *)
(* the branch collection holds.                                              *)
C2_LatestNeverDeleted ==
    \A i \in DeleteIdx : repo_requests[i].tag # Latest

\* "latest" was fetched and passed by the tag loop while the only branch of
\* that name was merged, and another tag of the same repository was deleted
C2_Witness ==
    /\ pc = "tag_loop"
    /\ \E i \in 1..(tag_idx - 1) : i <= Len(image_tags) /\ image_tags[i] = Latest
    /\ \E b \in 1..Len(branches) : branches[b].name = Latest /\ branches[b].merged
    /\ tag_is_deletable(branches, Latest)
    /\ DeleteIdx # {}

(* C3: when the tag loop of a repository is over, every fetched tag other    *)
(* than "latest" that no unmerged branch protects has got exactly one        *)
(* DELETE request, also with a tag listed twice or a failed DELETE before.   *)
C3_DeletedExactlyOnce ==
    (pc = "crashed" \/ TagLoopOver)
    => \A t \in Range(image_tags) :
          (t # Latest /\ tag_is_deletable(branches, t))
          => Cardinality({i \in DeleteIdx : repo_requests[i].tag = t}) = 1

C5_FailedDeleteDoesNotHalt ==
    \A i \in DeleteIdx :
        repo_requests[i].status # 200 =>
           /\ \A j \in DeleteIdx : j # i => repo_requests[j].pos # repo_requests[i].pos
           /\ pc = "tag_loop"
           /\ tag_idx > repo_requests[i].pos
           /\ \A q \in (repo_requests[i].pos + 1)..(tag_idx - 1) :
                 (image_tags[q] # Latest /\ tag_is_deletable(branches, image_tags[q]))
                 => \E j \in DeleteIdx : repo_requests[j].pos = q

(* C6: when the repositories listing or the first branch page returns a      *)
(* non-success status or a body that is not a list, main returns and no      *)
(* further request of any kind is issued.                                    *)
C6_TopLevelFailureAborts ==
    \A i \in {1, 2} :
        (i <= Len(requests) /\ ~requests[i].list)
        => /\ Len(requests) = i
           /\ repo_requests = <<>>
           /\ pc = "done"

\* the first branch page failed after a listing with cache repositories
C6_Witness ==
    /\ Len(requests) = 2
    /\ requests[1].list
    /\ requests[2].status = 500
    /\ cache_repository_ids # <<>>
    /\ pc = "done"

(* C7: when the listing returned no repository named in CACHE_REPOSITORIES,  *)
(* the run requests no branch page, no tag list and no tag deletion.         *)
C7_NoCacheRepositoryNoCalls ==
    (/\ Len(requests) >= 1
     /\ requests[1].list
     /\ \A i \in 1..Len(registry_repositories) :
           registry_repositories[i].name \notin cache_repositories)
    => /\ Len(requests) = 1
       /\ repo_requests = <<>>
       /\ pc = "done"

\* the listing returned a repository, but none that is a cache repository
C7_Witness ==
    /\ pc = "done"
    /\ Len(requests) = 1
    /\ requests[1].list
    /\ registry_repositories # <<>>
    /\ cache_repository_ids = <<>>

\* position of a repository id in the listing
ListingPos(id) ==
    CHOOSE i \in 1..Len(registry_repositories) : registry_repositories[i].id = id

OrderOfRequests ==
    \* the listing, then the branch pages 1, 2, ...
    /\ \A i \in 1..Len(requests) :
          IF i = 1 THEN requests[i].kind = "GET_repositories"
          ELSE requests[i].kind = "GET_branches" /\ requests[i].page = i - 1
    \* every branch page was requested before the repositories are taken
    /\ BranchLoopJustEnded => Len(requests) = 1 + total_pages
    \* the cache repositories are in the order of the listing
    /\ \A a, b \in 1..Len(cache_repository_ids) :
          a < b => ListingPos(cache_repository_ids[a]) < ListingPos(cache_repository_ids[b])
    \* the closing messages of the repositories come in that order
    /\ \A j \in 1..Len(printed) :
          printed[j].repo # 0 => printed[j].repo = cache_repository_ids[j]
    \* the requests of a call are all for its repository
    /\ \A i \in 1..Len(repo_requests) :
          repo_requests[i].repo = cache_repository_ids[repo_idx]
    \* tag pages 1, 2, ... first, and then only DELETEs
    /\ \E n \in 0..Len(repo_requests) :
          /\ \A i \in 1..n :
                repo_requests[i].kind = "GET_tags" /\ repo_requests[i].page = i
          /\ \A i \in (n + 1)..Len(repo_requests) : IsDelete(repo_requests[i])
    \* no DELETE before the tag loop ended
    /\ DeleteIdx # {} => TagLoopEnded
    \* the DELETEs follow the order of image_tags
    /\ \A i, j \in DeleteIdx :
          /\ repo_requests[i].tag = image_tags[repo_requests[i].pos]
          /\ i < j => repo_requests[i].pos < repo_requests[j].pos

OrderOfSteps ==
    \* once the repositories are taken, main's requests and the branch
    \* collection stay as they are
    /\ BranchLoopEnded => (branches' = branches /\ requests' = requests)
    \* the repositories are taken one by one
    /\ repo_idx' # repo_idx => repo_idx' = repo_idx + 1
    \* a call for a repository starts only when the one before has printed its
    \* closing message, after its last request
    /\ (repo_requests = <<>> /\ repo_requests' # <<>>)
       => /\ pc = "repo_loop"
          /\ Len(printed) = repo_idx - 1
          /\ repo_requests'[1].repo = cache_repository_ids[repo_idx]

(* C9: the requests are strictly ordered: the listing, the branch pages in   *)
(* increasing page number, then the repositories one by one in listing       *)
(* order, each with its tag pages in increasing page number before its       *)
(* DELETEs, which follow the tag list; the branch collection does not        *)
(* change once the first tag request is issued.                              *)
C9_SequentialOrder == [](OrderOfRequests) /\ [][OrderOfSteps]_vars

\* after two branch pages, the second of two repositories has had its two tag
\* pages requested and its two tags deleted
C9_Witness ==
    /\ TagLoopOver
    /\ Len(requests) = 3
    /\ Len(cache_repository_ids) = 2
    /\ repo_idx = 2
    /\ Len(printed) = 1
    /\ Len(PageRequests(repo_requests)) = 2
    /\ Cardinality(DeleteIdx) = 2

\* every fetched tag of the current call that is to be deleted has its DELETE
CurrentTagsDeleted ==
    \A q \in 1..Len(image_tags) :
        (image_tags[q] # Latest /\ tag_is_deletable(branches, image_tags[q]))
        => \E i \in DeleteIdx : repo_requests[i].pos = q

(* C10: when the first tag page of a repository fails, no DELETE is issued   *)
(* for it, and when the run is over every repository after it has been       *)
(* processed in full: its call printed its closing message, or its tags      *)
(* were listed and all its deletable tags got a DELETE; every DELETE is for  *)
(* the repository of the call and a tag of its own fetched list.             *)
C10_TagListingFailureContained ==
    /\ \A i \in DeleteIdx :
          /\ repo_requests[i].repo = cache_repository_ids[repo_idx]
          /\ repo_requests[i].tag \in Range(NamesOf(registry_tags))
    /\ pc = "tags_failed" => DeleteIdx = {}
    /\ \A k \in 1..Len(printed) :
          (printed[k].msg = "error_fetching_tags" /\ RunOver) =>
             \A j \in (k + 1)..Len(cache_repository_ids) :
                \/ /\ j <= Len(printed)
                   /\ printed[j].repo = cache_repository_ids[j]
                \/ /\ j = repo_idx
                   /\ TagLoopEnded
                   /\ CurrentTagsDeleted

\* positions of the DELETE calls of the single-tag deleter
DeleteCalls == {i \in 1..Len(d_calls) : d_calls[i].kind = "DELETE_tag"}
ListingArrived ==
    \E i \in 1..Len(d_calls) : d_calls[i].kind = "LIST_repositories" /\ d_calls[i].ok
WantedRepos ==
    {i \in 1..Len(d_repositories) : d_repositories[i].location = repository_location}

(* C8: an absent project, no repository with exactly the given location,    *)
(* and an absent tag are each reported by a message of their own, with no   *)
(* DELETE call and exit code 0; a DELETE is only issued for a repository    *)
(* whose location equals the given one and that holds the tag.              *)
C8_NotFoundOutcomes ==
    /\ \A i \in DeleteCalls :
          /\ d_project_exists
          /\ d_repositories[d_calls[i].repo].location = repository_location
          /\ d_repositories[d_calls[i].repo].has_tag
    /\ (d_pc \in {"done", "crashed"} /\ ~d_project_exists)
       => /\ d_printed = <<"project_not_found">>
          /\ DeleteCalls = {}
          /\ d_pc = "done" /\ d_exit = 0
    /\ (d_pc \in {"done", "crashed"} /\ ListingArrived /\ WantedRepos = {})
       => /\ d_printed = <<"repository_not_found">>
          /\ DeleteCalls = {}
          /\ d_pc = "done" /\ d_exit = 0
    /\ (d_pc \in {"done", "crashed"} /\ ListingArrived
            /\ \E i \in WantedRepos : ~d_repositories[i].has_tag)
       => /\ d_printed = <<"tag_not_exists">>
          /\ DeleteCalls = {}
          /\ d_pc = "done" /\ d_exit = 0

\* the project holds the tag in a repository whose location only starts with
\* the given one, and the script ended with the repository message
C8_Witness ==
    /\ d_pc = "done"
    /\ d_printed = <<"repository_not_found">>
    /\ \E i \in 1..Len(d_repositories) :
          /\ d_repositories[i].location = <<"registry", "hive", "haf", "data">>
          /\ d_repositories[i].has_tag

====
